---- MODULE Spec2Model ----
(***************************************************************************)
(* Model of pkg/remote/trans/nphttp2/server_handler.go: the server-side    *)
(* gRPC transport handler of kitex.  One connection, its server transport, *)
(* and one task per stream delivered by HandleStreams.                     *)
(*                                                                         *)
(* Strings are sequences of one-character strings; Go's nil error and nil  *)
(* panic value are the string "nil".                                       *)
(***************************************************************************)
EXTENDS Integers, Sequences, FiniteSets, TLC

\* ------------------------------------------------------------------ bounds
NumStreams == 2
NumHandlers == 3
MaxErrors == 1
MaxMethodLen == 6

Streams == 1..NumStreams

\* Errors a metadata handler or the endpoint may return, panic payloads.
Errs == {"ErrA", "ErrB"}
Panics == {"boom"}
Nil == "nil"

\* ------------------------------------------------------------------ strings
Alphabet == {"/", ".", "p", "S", "M"}

StringsOfLen(n) == [1..n -> Alphabet]

AllMethods == UNION {StringsOfLen(n) : n \in 0..MaxMethodLen}

\* Method strings the streams of the concurrent specification carry:
\* well-formed with and without the leading "/", no "/", no ".".
StreamMethods ==
  { <<"/", "p", ".", "S", "/", "M">>,
    <<"p", ".", "S", "/", "M">>,
    <<"M">>,
    <<"/", "p", "/", "M">> }

\* Go: s[lo:hi] with 0-based, half-open bounds.
Slice(str, lo, hi) == SubSeq(str, lo + 1, hi)

\* Go: strings.LastIndex(str, c) for a one-character c; -1 when absent.
RECURSIVE LastIndexFrom(_, _, _)
LastIndexFrom(str, c, i) ==
  IF i < 0 THEN -1
  ELSE IF str[i + 1] = c THEN i
  ELSE LastIndexFrom(str, c, i - 1)

LastIndexFirstMatch(str, c) ==
  IF \E i \in 1..Len(str) : str[i] = c
  THEN (CHOOSE i \in 1..Len(str) :
          str[i] = c /\ \A j \in 1..(i - 1) : str[j] # c) - 1
  ELSE -1

LastIndex(str, c) == LastIndexFrom(str, c, Len(str) - 1)

\* Go: fmt.Sprintf("%q", str) for a string of printable ASCII without
\* quotes or backslashes: the string between double quotes.
Quote(str) == <<"\"">> \o str \o <<"\"">>

\* ------------------------------------------------------------------ status
StatusOK == [code |-> "OK", msg |-> <<>>]

\* status.New(code, desc)
StatusNew(code, desc) == [code |-> code, msg |-> desc]

\* convertFromKitexToGrpc: the error-to-status mapping; keeps the message.
ErrCode(e) == IF e = "ErrA" THEN "Internal" ELSE "Unavailable"
convertFromKitexToGrpc(e) ==
  IF e = Nil THEN StatusOK ELSE StatusNew(ErrCode(e), <<e>>)

MalformedMethodDesc(raw) == <<"malformed method name: ">> \o Quote(raw)
MalformedServiceDesc(raw) ==
  <<"malformed package and service name: ">> \o Quote(raw)

\* ------------------------------------------------------------------ state
VARIABLES
  phase,        \* "new" | "active" | "inactive": connection callbacks seen
  readTimeout,  \* "default" | "Infinity"
  trState,      \* "none" | "failed" | "open" | "closed": OnRead's transport
  closeCount,   \* number of tr.Close() calls
  logs,         \* [panic, error]: entries written to t.opt.Logger
  putRPCInfo,   \* number of rpcinfo.PutRPCInfo calls (OnInactive)
  pool,         \* the RPCInfo pool: [free: ids in it, puts: id -> times put]
  stream        \* per stream: the task's position, locals and effects

vars ==
  <<phase, readTimeout, trState, closeCount, logs, putRPCInfo, pool, stream>>

connVars == <<phase, readTimeout, trState, closeCount, putRPCInfo>>

EmptyInk == [pkg |-> <<>>, svc |-> <<>>, method |-> <<>>]
ZeroStats == [panicked |-> FALSE, panicErr |-> Nil]

\* Identities of RPCInfo objects: NoId is nil, ConnRI the RPCInfo the
\* connection's context may carry, s the object first handed to stream s.
NoId == -1
ConnRI == 0
RPCInfoIds == {ConnRI} \cup Streams

\* No RPCInfo yet (before InitRPCInfoFunc).
NoRI == [acquired |-> FALSE, id |-> NoId, hasStats |-> FALSE, proto |-> "none",
         ink |-> EmptyInk, stats |-> ZeroStats]

EmptyPool == [free |-> {}, puts |-> [i \in RPCInfoIds |-> 0]]

\* A stream the transport has not delivered yet.
NoTask ==
  [pc |-> "NotDelivered", method |-> <<>>, err |-> Nil, epErr |-> Nil,
   hRun |-> <<>>, hRes |-> <<>>, ri |-> NoRI, written |-> <<>>, invoked |-> 0,
   starts |-> 0, finishArgs |-> <<>>, doFinish |-> <<>>, events |-> <<>>]

Terminal == {"HandshakeFailed", "MethodMalformed", "Faulted", "Errored",
             "Succeeded"}

Ev(st, e) == [st EXCEPT !.events = Append(@, e)]

Count(seq, e) == Cardinality({i \in 1..Len(seq) : seq[i] = e})

\* ------------------------------------------------------------ task steps
\* t.opt.InitRPCInfoFunc: a fresh RPCInfo with empty invocation and zeroed,
\* mutable stats.
InitRPCInfoFunc ==
  [acquired |-> TRUE, id |-> NoId, hasStats |-> TRUE, proto |-> "default",
   ink |-> EmptyInk, stats |-> ZeroStats]

\* The objects the pool may hand to stream s: one it holds, or a new one.
PoolGet(s) == pool.free \cup {s}

\* rpcinfo.PutRPCInfo(ri): nil is ignored, an RPCInfo goes back to the pool.
PutRPCInfo(pl, id) ==
  IF id = NoId THEN pl
  ELSE [free |-> pl.free \cup {id},
        puts |-> [pl.puts EXCEPT ![id] = @ + 1]]

\* A task as GoFunc spawns it for a delivered stream.
Spawned == Ev([NoTask EXCEPT !.pc = "Created"], "Spawn")

\* Lines 97-100: acquire the RPCInfo, which is object id, tag the
\* transport protocol.
AcquireRPCInfo(st, id) ==
  Ev(Ev([st EXCEPT !.pc = "HandshakeRunning",
                   !.ri = [InitRPCInfoFunc EXCEPT !.proto = "GRPC",
                                                  !.id = id],
                   !.err = Nil],
        "InitRPCInfo"), "SetTransportProtocol")

\* Line 102: the next handler of the chain runs and returns res.
OnReadStream(st, res) ==
  Ev([st EXCEPT !.hRun = Append(@, Len(@) + 1),
                !.hRes = Append(@, res),
                !.err = res],
     "OnReadStream")

\* tr.WriteStatus(s, status)
WriteStatus(st, status) ==
  Ev([st EXCEPT !.written = Append(@, status)], "WriteStatus")

\* t.startTracer: TracerCtl.DoStart
startTracer(st) == Ev([st EXCEPT !.starts = @ + 1], "DoStart")

\* Variant: the stats are reset before the finish hooks run.
finishTracerResetFirst(st, err, panicErr) ==
  LET st0 == Ev([st EXCEPT !.finishArgs =
                   Append(@, [err |-> err, panicErr |-> panicErr])],
                "finishTracer")
  IN IF ~st0.ri.hasStats THEN st0
     ELSE
       LET st1 == IF panicErr # Nil
                  THEN Ev([st0 EXCEPT !.ri.stats =
                             [panicked |-> TRUE, panicErr |-> panicErr]],
                          "SetPanicked")
                  ELSE st0
           st2 == Ev([st1 EXCEPT !.ri.stats = ZeroStats], "Reset")
       IN Ev([st2 EXCEPT !.doFinish =
                Append(@, [err |-> err, stats |-> st2.ri.stats])],
             "DoFinish")

\* t.finishTracer(ctx, ri, err, panicErr)
finishTracer(st, err, panicErr) ==
  LET st0 == Ev([st EXCEPT !.finishArgs =
                   Append(@, [err |-> err, panicErr |-> panicErr])],
                "finishTracer")
  IN IF ~st0.ri.hasStats THEN st0
     ELSE
       LET st1 == IF panicErr # Nil
                  THEN Ev([st0 EXCEPT !.ri.stats =
                             [panicked |-> TRUE, panicErr |-> panicErr]],
                          "SetPanicked")
                  ELSE st0
           st2 == Ev([st1 EXCEPT !.doFinish =
                        Append(@, [err |-> err, stats |-> st1.ri.stats])],
                     "DoFinish")
       IN Ev([st2 EXCEPT !.ri.stats = ZeroStats], "Reset")

\* The deferred function of the task: recover, log a panic, finish the
\* tracer with the task's err variable.
Deferred(st, panicErr) ==
  finishTracer(IF panicErr # Nil THEN Ev(st, "LogPanic") ELSE st,
               st.err, panicErr)

\* The string quoted in a malformed-name description: s.Method().
OffendingStripped(st, sm) == sm
Offending(st, sm) == st.method

\* Lines 121-143: read s.Method(), which is m, resolve it into the
\* invocation, then call the endpoint; on a malformed name write the status
\* and return.
ResolveMethod(st0, m) ==
  LET st == Ev([st0 EXCEPT !.method = m], "Method")
      raw == st.method
      sm == IF raw # <<>> /\ raw[1] = "/" THEN Slice(raw, 1, Len(raw)) ELSE raw
      pos == LastIndex(sm, "/")
  IN IF pos = -1
     THEN Deferred(
            [WriteStatus(st, StatusNew("ResourceExhausted",
                                       MalformedMethodDesc(Offending(st, sm))))
               EXCEPT !.pc = "MethodMalformed"], Nil)
     ELSE
       LET st1 == Ev([st EXCEPT !.ri.ink.method = Slice(sm, pos + 1, Len(sm))],
                     "SetMethodName")
           idx == LastIndex(Slice(sm, 0, pos), ".")
       IN IF idx = -1
          THEN Deferred(
                 [WriteStatus(st1, StatusNew("ResourceExhausted",
                                  MalformedServiceDesc(Offending(st, sm))))
                    EXCEPT !.pc = "MethodMalformed"], Nil)
          ELSE
            LET st2 == Ev([st1 EXCEPT !.ri.ink.pkg = Slice(sm, 0, idx)],
                          "SetPackageName")
                st3 == Ev([st2 EXCEPT !.ri.ink.svc = Slice(sm, idx + 1, pos)],
                          "SetServiceName")
            IN Ev([st3 EXCEPT !.pc = "Invoking", !.invoked = @ + 1], "Invoke")

\* ------------------------------------------------------------------ Init
Init ==
  /\ phase = "new"
  /\ readTimeout = "default"
  /\ trState = "none"
  /\ closeCount = 0
  /\ logs = [panic |-> 0, error |-> 0]
  /\ putRPCInfo = 0
  /\ pool = EmptyPool
  /\ stream = [s \in Streams |-> NoTask]

\* --------------------------------------------------- connection callbacks
\* OnActive: conn.SetReadTimeout(Infinity)
OnActive ==
  /\ phase = "new"
  /\ phase' = "active"
  /\ readTimeout' = "Infinity"
  /\ UNCHANGED <<trState, closeCount, logs, putRPCInfo, pool, stream>>

\* OnRead, line 89: NewServerTransport succeeded; HandleStreams starts.
OnReadStart ==
  /\ phase = "active"
  /\ trState = "none"
  /\ trState' = "open"
  /\ UNCHANGED <<phase, readTimeout, closeCount, logs, putRPCInfo, pool,
                 stream>>

\* OnRead, lines 89-92: NewServerTransport failed; OnRead returns the error.
OnReadFail ==
  /\ phase = "active"
  /\ trState = "none"
  /\ trState' = "failed"
  /\ UNCHANGED <<phase, readTimeout, closeCount, logs, putRPCInfo, pool,
                 stream>>

\* HandleStreams returns; the deferred tr.Close() runs; OnRead returns nil.
OnReadReturn ==
  /\ trState = "open"
  /\ trState' = "closed"
  /\ closeCount' = closeCount + 1
  /\ UNCHANGED <<phase, readTimeout, logs, putRPCInfo, pool, stream>>

\* rpcinfo.GetRPCInfo(ctx) on the context OnInactive is called with: nil,
\* or an RPCInfo of the connection.  The RPCInfo of a stream task lives in
\* the context that line 97 declares inside the task, never in this one.
ConnCtxRPCInfo == {NoId, ConnRI}

\* Variant: the connection's context carries the RPCInfo of a stream task.
OnInactiveOfStream ==
  /\ phase = "active"
  /\ phase' = "inactive"
  /\ putRPCInfo' = putRPCInfo + 1
  /\ \E id \in ConnCtxRPCInfo \cup
                {stream[s].ri.id : s \in {x \in Streams : stream[x].ri.acquired}} :
       pool' = PutRPCInfo(pool, id)
  /\ UNCHANGED <<readTimeout, trState, closeCount, logs, stream>>

\* OnInactive: rpcinfo.PutRPCInfo(rpcinfo.GetRPCInfo(ctx)) on the
\* connection's context.
OnInactive ==
  /\ phase = "active"
  /\ phase' = "inactive"
  /\ putRPCInfo' = putRPCInfo + 1
  /\ \E id \in ConnCtxRPCInfo : pool' = PutRPCInfo(pool, id)
  /\ UNCHANGED <<readTimeout, trState, closeCount, logs, stream>>

\* Variant: the error callback also closes the transport.
OnErrorCloses ==
  /\ logs.error < MaxErrors
  /\ logs' = [logs EXCEPT !.error = @ + 1]
  /\ trState' = IF trState = "open" THEN "closed" ELSE trState
  /\ closeCount' = IF trState = "open" THEN closeCount + 1 ELSE closeCount
  /\ UNCHANGED <<phase, readTimeout, putRPCInfo, pool, stream>>

\* OnError: one entry to the logger, with or without the error's stack,
\* whatever the connection's state.
OnError ==
  /\ logs.error < MaxErrors
  /\ logs' = [logs EXCEPT !.error = @ + 1]
  /\ UNCHANGED <<phase, readTimeout, trState, closeCount, putRPCInfo, pool,
                 stream>>

\* ------------------------------------------------------------ stream task
\* Variant: the callback runs the task itself, so HandleStreams delivers
\* no stream while a task is running.
DeliverInline(s) ==
  /\ trState = "open"
  /\ phase = "active"
  /\ stream[s].pc = "NotDelivered"
  /\ \A t \in Streams :
       stream[t].pc \in Terminal \cup {"NotDelivered"}
  /\ stream' = [stream EXCEPT ![s] = Spawned]
  /\ UNCHANGED <<connVars, logs, pool>>

\* HandleStreams calls back with stream s; GoFunc spawns its task.
Deliver(s) ==
  /\ trState = "open"
  /\ phase = "active"
  /\ stream[s].pc = "NotDelivered"
  /\ stream' = [stream EXCEPT ![s] = Spawned]
  /\ UNCHANGED <<connVars, logs, pool>>

\* Lines 97-100: acquire the RPCInfo, tag the transport protocol.
InitRPCInfo(s) ==
  /\ stream[s].pc = "Created"
  /\ \E id \in PoolGet(s) :
       /\ stream' = [stream EXCEPT ![s] = AcquireRPCInfo(@, id)]
       /\ pool' = [pool EXCEPT !.free = @ \ {id}]
  /\ UNCHANGED <<connVars, logs>>

\* Lines 101-107, one iteration: the next handler returns nil.
MetaHandlerOK(s) ==
  /\ stream[s].pc = "HandshakeRunning"
  /\ Len(stream[s].hRun) < NumHandlers
  /\ stream' = [stream EXCEPT ![s] = OnReadStream(@, Nil)]
  /\ UNCHANGED <<connVars, logs, pool>>

\* Variant: the deferred finish is already registered when a handler fails.
MetaHandlerFailFinishing(s) ==
  /\ stream[s].pc = "HandshakeRunning"
  /\ Len(stream[s].hRun) < NumHandlers
  /\ \E e \in Errs :
       stream' = [stream EXCEPT ![s] =
         Deferred([WriteStatus(OnReadStream(@, e), convertFromKitexToGrpc(e))
                     EXCEPT !.pc = "HandshakeFailed"], Nil)]
  /\ UNCHANGED <<connVars, logs, pool>>

\* Variant: the return after the status write is missing; the loop goes on.
MetaHandlerFailNoReturn(s) ==
  /\ stream[s].pc = "HandshakeRunning"
  /\ Len(stream[s].hRun) < NumHandlers
  /\ \E e \in Errs :
       stream' = [stream EXCEPT ![s] =
         WriteStatus(OnReadStream(@, e), convertFromKitexToGrpc(e))]
  /\ UNCHANGED <<connVars, logs, pool>>

\* Lines 101-107, one iteration: the next handler returns an error; the
\* task writes its status and returns.
MetaHandlerFail(s) ==
  /\ stream[s].pc = "HandshakeRunning"
  /\ Len(stream[s].hRun) < NumHandlers
  /\ \E e \in Errs :
       stream' = [stream EXCEPT ![s] =
         [WriteStatus(OnReadStream(@, e), convertFromKitexToGrpc(e))
            EXCEPT !.pc = "HandshakeFailed"]]
  /\ UNCHANGED <<connVars, logs, pool>>

\* Variant: the handler loop may be left before every handler ran.
StartTracerEarly(s) ==
  /\ stream[s].pc = "HandshakeRunning"
  /\ Len(stream[s].hRun) <= NumHandlers
  /\ stream' = [stream EXCEPT ![s] =
                  [startTracer(@) EXCEPT !.pc = "MethodResolving"]]
  /\ UNCHANGED <<connVars, logs, pool>>

\* Lines 108-119: every handler returned nil; start the tracer and
\* register the deferred function.
StartTracer(s) ==
  /\ stream[s].pc = "HandshakeRunning"
  /\ Len(stream[s].hRun) = NumHandlers
  /\ stream' = [stream EXCEPT ![s] =
                  [startTracer(@) EXCEPT !.pc = "MethodResolving"]]
  /\ UNCHANGED <<connVars, logs, pool>>

\* Lines 121-144: resolve the stream's method, one of methods; call the
\* endpoint or fail.
ResolveOneOf(s, methods) ==
  /\ stream[s].pc = "MethodResolving"
  /\ \E m \in methods :
       stream' = [stream EXCEPT ![s] = ResolveMethod(@, m)]
  /\ UNCHANGED <<connVars, logs, pool>>

Resolve(s) == ResolveOneOf(s, StreamMethods)

\* Lines 144, 148: the endpoint returns nil.
EndpointOK(s) ==
  /\ stream[s].pc = "Invoking"
  /\ stream' = [stream EXCEPT ![s] =
       Deferred([WriteStatus([@ EXCEPT !.epErr = Nil], StatusOK)
                   EXCEPT !.pc = "Succeeded"], Nil)]
  /\ UNCHANGED <<connVars, logs, pool>>

\* Variant: the status is written only after the tracer was finished.
EndpointErrFinishFirst(s) ==
  /\ stream[s].pc = "Invoking"
  /\ \E e \in Errs :
       stream' = [stream EXCEPT ![s] =
         WriteStatus(Deferred([@ EXCEPT !.epErr = e, !.pc = "Errored"], Nil),
                     convertFromKitexToGrpc(e))]
  /\ UNCHANGED <<connVars, logs, pool>>

\* Variant: the error branch falls through to the OK status.
EndpointErrWritesOK(s) ==
  /\ stream[s].pc = "Invoking"
  /\ \E e \in Errs :
       stream' = [stream EXCEPT ![s] =
         Deferred([WriteStatus([@ EXCEPT !.epErr = e], StatusOK)
                     EXCEPT !.pc = "Errored"], Nil)]
  /\ UNCHANGED <<connVars, logs, pool>>

\* Variant: the return after the error status is missing.
EndpointErrNoReturn(s) ==
  /\ stream[s].pc = "Invoking"
  /\ \E e \in Errs :
       stream' = [stream EXCEPT ![s] =
         Deferred([WriteStatus(WriteStatus([@ EXCEPT !.epErr = e],
                                           convertFromKitexToGrpc(e)),
                               StatusOK)
                     EXCEPT !.pc = "Errored"], Nil)]
  /\ UNCHANGED <<connVars, logs, pool>>

\* Lines 144-147: the endpoint returns an error, held by the err of the
\* if statement.
EndpointErr(s) ==
  /\ stream[s].pc = "Invoking"
  /\ \E e \in Errs :
       stream' = [stream EXCEPT ![s] =
         Deferred([WriteStatus([@ EXCEPT !.epErr = e],
                               convertFromKitexToGrpc(e))
                     EXCEPT !.pc = "Errored"], Nil)]
  /\ UNCHANGED <<connVars, logs, pool>>

\* Variant: the recovering function closes the transport, as its log
\* message says.
EndpointPanicClosesConn(s) ==
  /\ stream[s].pc = "Invoking"
  /\ \E p \in Panics :
       stream' = [stream EXCEPT ![s] =
                    Deferred([@ EXCEPT !.pc = "Faulted"], p)]
  /\ logs' = [logs EXCEPT !.panic = @ + 1]
  /\ trState' = "closed"
  /\ closeCount' = IF trState = "open" THEN closeCount + 1 ELSE closeCount
  /\ UNCHANGED <<phase, readTimeout, putRPCInfo, pool>>

\* Variant: the recovering function reports the panic to the peer.
EndpointPanicWritesStatus(s) ==
  /\ stream[s].pc = "Invoking"
  /\ \E p \in Panics :
       stream' = [stream EXCEPT ![s] =
         Deferred(WriteStatus([@ EXCEPT !.pc = "Faulted"],
                              StatusNew("Internal", <<p>>)), p)]
  /\ logs' = [logs EXCEPT !.panic = @ + 1]
  /\ UNCHANGED <<connVars, pool>>

\* Lines 109-119, 144: the endpoint panics; the deferred function recovers.
EndpointPanic(s) ==
  /\ stream[s].pc = "Invoking"
  /\ \E p \in Panics :
       stream' = [stream EXCEPT ![s] =
                    Deferred([@ EXCEPT !.pc = "Faulted"], p)]
  /\ logs' = [logs EXCEPT !.panic = @ + 1]
  /\ UNCHANGED <<connVars, pool>>

TaskStep(s) ==
  \/ InitRPCInfo(s)
  \/ MetaHandlerOK(s)
  \/ MetaHandlerFail(s)
  \/ StartTracer(s)
  \/ Resolve(s)
  \/ EndpointOK(s)
  \/ EndpointErr(s)
  \/ EndpointPanic(s)

Next ==
  \/ OnActive
  \/ OnReadStart
  \/ OnReadFail
  \/ OnReadReturn
  \/ OnInactive
  \/ OnError
  \/ \E s \in Streams : Deliver(s)
  \/ \E s \in Streams : TaskStep(s)

Spec == Init /\ [][Next]_vars

\* ------------------------------------------------- method resolution alone
\* A task that ran lines 97-119 with every handler returning nil.
RECURSIVE HandshakeDone(_)
HandshakeDone(st) ==
  IF Len(st.hRun) = NumHandlers THEN st
  ELSE HandshakeDone(OnReadStream(st, Nil))

ReadyToResolve ==
  [startTracer(HandshakeDone(AcquireRPCInfo(Spawned, 1)))
     EXCEPT !.pc = "MethodResolving"]

\* One stream about to resolve its method, any string over Alphabet.
InitParse ==
  /\ phase = "active"
  /\ readTimeout = "Infinity"
  /\ trState = "open"
  /\ closeCount = 0
  /\ logs = [panic |-> 0, error |-> 0]
  /\ putRPCInfo = 0
  /\ pool = EmptyPool
  /\ stream = [s \in Streams |-> IF s = 1 THEN ReadyToResolve ELSE NoTask]

NextParse == \E s \in Streams : ResolveOneOf(s, AllMethods)

SpecParse == InitParse /\ [][NextParse]_vars


\* ================================================================ claims
\* ------------------------------------------------ reference definitions
HasChar(str, c) == \E i \in 1..Len(str) : str[i] = c

\* The method string without one leading "/".
Stripped(m) == IF m # <<>> /\ Head(m) = "/" THEN Tail(m) ELSE m

\* Some "." stands before some "/" of the stripped string.
Resolvable(m) ==
  \E j, i \in 1..Len(Stripped(m)) :
    j < i /\ Stripped(m)[j] = "." /\ Stripped(m)[i] = "/"

\* (p, sv, me) is the reference parse of m.
IsTriple(m, p, sv, me) ==
  /\ Stripped(m) = p \o <<".">> \o sv \o <<"/">> \o me
  /\ ~HasChar(me, "/")
  /\ ~HasChar(sv, ".")

HandlerFailed(st) == \E i \in 1..Len(st.hRes) : st.hRes[i] # Nil

FirstFailure(st) ==
  CHOOSE i \in 1..Len(st.hRes) :
    st.hRes[i] # Nil /\ \A j \in 1..(i - 1) : st.hRes[j] = Nil

\* Position of the first event e of a task.
EvIndex(st, e) == CHOOSE i \in 1..Len(st.events) : st.events[i] = e

Live(st) == st.pc \notin Terminal \cup {"NotDelivered"}

\* The task has read s.Method().
MethodRead(st) == Count(st.events, "Method") = 1

\* C1: a panic of one stream's endpoint changes neither the connection
\* and its transport nor any sibling stream; while a stream is faulted,
\* every live sibling still has an enabled step, and a sibling that ran to
\* the end wrote its own status and finished its own tracer.
C1_FaultIsolation ==
  /\ [][\A s \in Streams :
          (stream[s].pc = "Invoking" /\ stream'[s].pc = "Faulted")
            => /\ UNCHANGED connVars
               /\ \A t \in Streams \ {s} : stream'[t] = stream[t]]_vars
  /\ [](\A s, t \in Streams :
          (s # t /\ stream[s].pc = "Faulted")
            => /\ Live(stream[t]) => ENABLED TaskStep(t)
               /\ stream[t].pc \in {"Succeeded", "Errored", "MethodMalformed"}
                    => /\ Len(stream[t].written) = 1
                       /\ Len(stream[t].doFinish) = 1)

C1_Witness ==
  \E s, t \in Streams :
    /\ stream[s].pc = "Faulted"
    /\ stream[t].pc = "Succeeded"
    /\ trState = "open"

C3_OneStatusThenFinish ==
  \A s \in Streams :
    LET st == stream[s] IN
    (st.pc \in Terminal /\ st.invoked = 1 /\ st.pc # "Faulted")
      => /\ Len(st.written) = 1
         /\ Count(st.events, "WriteStatus") = 1
         /\ Len(st.doFinish) = 1
         /\ Count(st.events, "DoFinish") = 1
         /\ EvIndex(st, "WriteStatus") < EvIndex(st, "DoFinish")

C3_Witness ==
  \E s, t \in Streams :
    /\ stream[s].pc = "Errored" /\ Len(stream[s].doFinish) = 1
    /\ stream[t].pc = "Succeeded" /\ Len(stream[t].written) = 1

\* C4: a stream one of whose handlers returned an error, or whose method
\* string does not resolve, never has its endpoint invoked.
C4_NoInvokeOnFailure ==
  \A s \in Streams :
    LET st == stream[s] IN
    (HandlerFailed(st) \/ (MethodRead(st) /\ ~Resolvable(st.method)))
      => st.invoked = 0 /\ Count(st.events, "Invoke") = 0

C4_Witness ==
  \E s, t \in Streams :
    /\ stream[s].pc = "HandshakeFailed" /\ HandlerFailed(stream[s])
    /\ stream[t].pc = "MethodMalformed" /\ ~Resolvable(stream[t].method)

\* C5: when the endpoint panics the task logs the panic, marks the stats
\* as panicked with the payload, finishes the tracer with that payload
\* and writes no status.
C5_PanicPath ==
  /\ \A s \in Streams :
       LET st == stream[s] IN
       st.pc = "Faulted"
         => /\ st.written = <<>>
            /\ Count(st.events, "WriteStatus") = 0
            /\ Count(st.events, "LogPanic") = 1
            /\ Len(st.finishArgs) = 1
            /\ st.finishArgs[1].panicErr \in Panics
            /\ Len(st.doFinish) = 1
            /\ st.doFinish[1].stats =
                 [panicked |-> TRUE, panicErr |-> st.finishArgs[1].panicErr]
            /\ EvIndex(st, "LogPanic") < EvIndex(st, "SetPanicked")
            /\ EvIndex(st, "SetPanicked") < EvIndex(st, "DoFinish")
  /\ logs.panic = Cardinality({s \in Streams : stream[s].pc = "Faulted"})

C5_Witness ==
  \E s \in Streams :
    /\ stream[s].pc = "Faulted"
    /\ stream[s].doFinish[1].stats.panicked
    /\ logs.panic = 1

\* C6: if handler k is the first to return an error, handlers 1..k ran
\* once each in order, no later handler ran, the tracer was not started,
\* the endpoint was not invoked, and the one status written is the
\* translation of handler k's error.
C6_ChainShortCircuit ==
  \A s \in Streams :
    LET st == stream[s] IN
    HandlerFailed(st)
      => LET k == FirstFailure(st) IN
         /\ st.hRun = [i \in 1..k |-> i]
         /\ Len(st.hRes) = k
         /\ Count(st.events, "OnReadStream") = k
         /\ st.starts = 0
         /\ st.invoked = 0
         /\ st.written = <<convertFromKitexToGrpc(st.hRes[k])>>

C6_Witness ==
  \E s \in Streams :
    /\ HandlerFailed(stream[s])
    /\ FirstFailure(stream[s]) = 2
    /\ NumHandlers > 2
    /\ stream[s].written = <<[code |-> "Unavailable", msg |-> <<"ErrB">>]>>

\* C7 as stated: the error handed to finishTracer is the error the
\* endpoint returned, nil when it returned nil.
C7_FinishGetsEndpointError ==
  \A s \in Streams :
    LET st == stream[s] IN
    st.pc \in {"Errored", "Succeeded"}
      => Len(st.finishArgs) = 1 /\ st.finishArgs[1].err = st.epErr

\* C8: the status written follows the outcome: OK with an empty message
\* exactly for an endpoint that returned nil, the translated error for an
\* endpoint or handler that returned one, ResourceExhausted for a method
\* that does not resolve; no OK without an invocation that returned nil.
C8_StatusByOutcome ==
  \A s \in Streams :
    LET st == stream[s] IN
    /\ st.pc = "Succeeded" => st.written = <<[code |-> "OK", msg |-> <<>>]>>
    /\ st.pc = "Errored"
         => /\ st.epErr \in Errs
            /\ st.written = <<convertFromKitexToGrpc(st.epErr)>>
    /\ HandlerFailed(st)
         => st.written = <<convertFromKitexToGrpc(st.hRes[FirstFailure(st)])>>
    /\ (MethodRead(st) /\ ~Resolvable(st.method))
         => Len(st.written) = 1 /\ st.written[1].code = "ResourceExhausted"
    /\ \A i \in 1..Len(st.written) :
         st.written[i].code = "OK"
           => st.pc = "Succeeded" /\ st.invoked = 1 /\ st.epErr = Nil

C8_Witness ==
  \E s, t \in Streams :
    /\ stream[s].pc = "Errored"
    /\ stream[s].written = <<[code |-> "Internal", msg |-> <<"ErrA">>]>>
    /\ stream[t].pc = "Succeeded"
    /\ stream[t].written = <<StatusOK>>

\* C9: the recorded triple is the reference parse of the method string:
\* one leading "/" dropped, method after the last "/", service after the
\* last "." before it, package before that "."; resolution succeeds exactly
\* when some "." stands before some "/"; empty segments pass.
C9_ResolutionIsReferenceParse ==
  \A s \in Streams :
    LET st == stream[s] IN
    /\ st.pc = "Invoking"
         => /\ Resolvable(st.method)
            /\ IsTriple(st.method, st.ri.ink.pkg, st.ri.ink.svc,
                        st.ri.ink.method)
    /\ st.pc = "MethodMalformed" => ~Resolvable(st.method)
    /\ (st.pc = "Invoking" /\ Stripped(st.method) = <<"p", ".", "S", "/", "M">>)
         => st.ri.ink = [pkg |-> <<"p">>, svc |-> <<"S">>, method |-> <<"M">>]
    /\ (st.pc = "Invoking" /\ st.method = <<".", "/">>)
         => st.ri.ink = [pkg |-> <<>>, svc |-> <<>>, method |-> <<>>]

C9_Witness ==
  \E s \in Streams :
    /\ stream[s].pc = "Invoking"
    /\ stream[s].method = <<"/", "p", ".", "S", "/", "M">>
    /\ stream[s].ri.ink = [pkg |-> <<"p">>, svc |-> <<"S">>, method |-> <<"M">>]

\* C10: without a "/" after stripping, resolution fails as a malformed
\* method name; with a "/" but no "." before the last "/", as a malformed
\* service name; either way one status is written, ResourceExhausted, whose
\* message quotes the method string as the stream delivered it.
C10_MalformedStatus ==
  \A s \in Streams :
    LET st == stream[s] IN
    (st.pc \in {"Invoking", "MethodMalformed"})
      => /\ ~HasChar(Stripped(st.method), "/")
              => /\ st.pc = "MethodMalformed"
                 /\ st.written =
                      <<[code |-> "ResourceExhausted",
                         msg |-> <<"malformed method name: ", "\"">>
                                   \o st.method \o <<"\"">>]>>
         /\ (HasChar(Stripped(st.method), "/") /\ ~Resolvable(st.method))
              => /\ st.pc = "MethodMalformed"
                 /\ st.written =
                      <<[code |-> "ResourceExhausted",
                         msg |-> <<"malformed package and service name: ",
                                   "\"">> \o st.method \o <<"\"">>]>>

C10_Witness ==
  \E s \in Streams :
    /\ stream[s].pc = "MethodMalformed"
    /\ stream[s].method = <<"/", "p", "/", "M">>
    /\ stream[s].written[1].msg =
         <<"malformed package and service name: ",
           "\"", "/", "p", "/", "M", "\"">>


\* The task of stream s holds an RPCInfo and is still running.
InUse(s) == stream[s].ri.acquired /\ Live(stream[s])

\* Number of stream tasks that were handed object id.
Handed(id) ==
  Cardinality({s \in Streams : stream[s].ri.acquired /\ stream[s].ri.id = id})

Quiescent == \A s \in Streams : ~Live(stream[s])

\* C11 as stated: once the connection is inactive and no task runs, every
\* RPCInfo a stream task acquired is back in the pool, and no object was put
\* more often than it was handed out (the connection's own put aside).
C11_ReleasedExactlyOnce ==
  (phase = "inactive" /\ Quiescent)
    => \A s \in Streams :
         stream[s].ri.acquired
           => /\ stream[s].ri.id \in pool.free
              /\ pool.puts[stream[s].ri.id]
                   = Handed(stream[s].ri.id)
                     + (IF stream[s].ri.id = ConnRI THEN 1 ELSE 0)

\* C12: two running tasks never hold the same RPCInfo, an RPCInfo a running
\* task holds is not in the pool, and a task works on zeroed stats until
\* its tracer finish.
C12_NoSharedCallState ==
  /\ \A s, t \in Streams :
       (s # t /\ InUse(s) /\ InUse(t)) => stream[s].ri.id # stream[t].ri.id
  /\ \A s \in Streams :
       InUse(s) => /\ stream[s].ri.id \notin pool.free
                   /\ stream[s].ri.id \in RPCInfoIds
                   /\ stream[s].ri.stats = ZeroStats

C12_Witness ==
  \E s, t \in Streams :
    /\ s # t
    /\ phase = "inactive"
    /\ InUse(s) /\ stream[s].ri.id = ConnRI
    /\ InUse(t) /\ stream[t].ri.id = t
    /\ pool.puts[ConnRI] = 1

\* C13: the delivery of a stream only spawns its task (no handshake,
\* resolution or invocation in the callback, no other task touched), and
\* while one stream's endpoint has not returned, an undelivered stream can
\* still be delivered and every running sibling still has a step.
C13_DeliveryOnlySpawns ==
  /\ [][\A s \in Streams :
          (stream[s].pc = "NotDelivered" /\ stream'[s].pc # "NotDelivered")
            => /\ stream'[s].pc = "Created"
               /\ stream'[s].events = <<"Spawn">>
               /\ stream'[s].hRun = <<>>
               /\ stream'[s].invoked = 0
               /\ stream'[s].written = <<>>
               /\ ~stream'[s].ri.acquired
               /\ \A t \in Streams \ {s} : stream'[t] = stream[t]]_vars
  /\ [](\A s, t \in Streams :
          (s # t /\ stream[s].pc = "Invoking")
            => /\ (stream[t].pc = "NotDelivered" /\ trState = "open"
                     /\ phase = "active") => ENABLED Deliver(t)
               /\ Live(stream[t]) => ENABLED TaskStep(t))

C13_Witness ==
  \E s, t \in Streams :
    /\ stream[s].pc = "Invoking"
    /\ stream[t].pc = "Succeeded"
    /\ trState = "open"

\* Position of a call in the order of the task's steps.
Rank(e) ==
  CASE e = "Spawn" -> 0
    [] e = "InitRPCInfo" -> 1
    [] e = "SetTransportProtocol" -> 2
    [] e = "OnReadStream" -> 3
    [] e = "DoStart" -> 4
    [] e = "Method" -> 5
    [] e = "SetMethodName" -> 6
    [] e = "SetPackageName" -> 7
    [] e = "SetServiceName" -> 8
    [] e = "Invoke" -> 9
    [] e = "LogPanic" -> 10
    [] e = "WriteStatus" -> 10
    [] e = "finishTracer" -> 11
    [] e = "SetPanicked" -> 12
    [] e = "DoFinish" -> 13
    [] e = "Reset" -> 14

Transitions ==
  { <<"NotDelivered", "Created">>,
    <<"Created", "HandshakeRunning">>,
    <<"HandshakeRunning", "HandshakeRunning">>,
    <<"HandshakeRunning", "HandshakeFailed">>,
    <<"HandshakeRunning", "MethodResolving">>,
    <<"MethodResolving", "MethodMalformed">>,
    <<"MethodResolving", "Invoking">>,
    <<"Invoking", "Faulted">>,
    <<"Invoking", "Errored">>,
    <<"Invoking", "Succeeded">> }

C15_NoRecordOnMalformed ==
  \A s \in Streams :
    LET st == stream[s] IN
    st.pc = "MethodMalformed"
      => /\ st.ri.ink = EmptyInk
         /\ Count(st.events, "SetMethodName") = 0
         /\ Count(st.events, "SetPackageName") = 0
         /\ Count(st.events, "SetServiceName") = 0

\* C16: a stream has at most one status written, on every path, and none
\* written after its tracer finish.
C16_AtMostOneStatus ==
  \A s \in Streams :
    LET st == stream[s] IN
    /\ Len(st.written) <= 1
    /\ Count(st.events, "WriteStatus") = Len(st.written)
    /\ Len(st.finishArgs) > 0
         => \A j \in (EvIndex(st, "finishTracer") + 1)..Len(st.events) :
              st.events[j] # "WriteStatus"

C16_Witness ==
  \E s, t \in Streams :
    /\ stream[s].pc = "Faulted" /\ stream[s].written = <<>>
    /\ stream[t].pc = "Errored" /\ Len(stream[t].written) = 1

\* C17: in finishTracer the panic payload is recorded before the finish
\* hooks run and the stats are reset after them: the hooks see the
\* panicked marker exactly when there was a panic, and the stats are
\* zeroed once finishTracer has returned.
C17_FinishTracerOrder ==
  \A s \in Streams :
    LET st == stream[s] IN
    Len(st.finishArgs) > 0
      => /\ Len(st.doFinish) = 1
         /\ Count(st.events, "Reset") = 1
         /\ EvIndex(st, "finishTracer") < EvIndex(st, "DoFinish")
         /\ EvIndex(st, "DoFinish") < EvIndex(st, "Reset")
         /\ st.events[Len(st.events)] = "Reset"
         /\ st.ri.stats = ZeroStats
         /\ st.finishArgs[1].panicErr # Nil
              => /\ Count(st.events, "SetPanicked") = 1
                 /\ EvIndex(st, "SetPanicked") < EvIndex(st, "DoFinish")
                 /\ st.doFinish[1].stats.panicked
                 /\ st.doFinish[1].stats.panicErr = st.finishArgs[1].panicErr
         /\ st.finishArgs[1].panicErr = Nil
              => /\ Count(st.events, "SetPanicked") = 0
                 /\ ~st.doFinish[1].stats.panicked

C17_Witness ==
  \E s, t \in Streams :
    /\ stream[s].pc = "Faulted"
    /\ stream[s].doFinish[1].stats = [panicked |-> TRUE, panicErr |-> "boom"]
    /\ stream[s].ri.stats = ZeroStats
    /\ stream[t].pc = "Succeeded"
    /\ stream[t].doFinish[1].stats = ZeroStats

\* C18: a step that logs a transport error adds one entry and changes
\* nothing else: not the connection, its transport or read timeout, no
\* stream task, no RPCInfo, not the pool.
C18_OnErrorOnlyLogs ==
  [][logs'.error # logs.error
       => /\ logs'.error = logs.error + 1
          /\ logs'.panic = logs.panic
          /\ UNCHANGED <<connVars, pool, stream>>]_vars

C18_Witness ==
  /\ logs.error = 1
  /\ trState = "open"
  /\ phase = "active"
  /\ readTimeout = "Infinity"
  /\ \E s \in Streams : stream[s].pc = "Invoking"

\* C19: the tracer is started and finished at most once each, never
\* finished before or without being started; a terminated task has a
\* finish exactly when it has a start, and neither after a failed handshake.
C19_TracerBalance ==
  \A s \in Streams :
    LET st == stream[s] IN
    /\ st.starts <= 1 /\ Count(st.events, "DoStart") = st.starts
    /\ Len(st.finishArgs) <= st.starts
    /\ Len(st.doFinish) = Len(st.finishArgs)
    /\ Len(st.finishArgs) = 1
         => EvIndex(st, "DoStart") < EvIndex(st, "finishTracer")
    /\ st.pc \in Terminal => Len(st.finishArgs) = st.starts
    /\ st.pc = "HandshakeFailed" => st.starts = 0 /\ st.finishArgs = <<>>

C19_Witness ==
  \E s, t \in Streams :
    /\ stream[s].pc = "HandshakeFailed" /\ stream[s].starts = 0
    /\ stream[t].pc \in Terminal /\ stream[t].starts = 1
    /\ Len(stream[t].doFinish) = 1

\* C20 as stated: the transport is closed exactly once, when HandleStreams
\* returns, and no task writes a status once it is closed.
C20_NoWriteAfterClose ==
  /\ [](closeCount <= 1 /\ (trState = "closed" <=> closeCount = 1))
  /\ [][\A s \in Streams :
          trState = "closed" => stream'[s].written = stream[s].written]_vars

====
